---- MODULE Spec2Model ----
(***************************************************************************)
(* PriceAnalyzer (src/dsa/price_trend.py): a bounded queue of simulated    *)
(* past prices, its generator and the BUY / WAIT recommendation rule.      *)
(*                                                                         *)
(* Numbers.  Prices handed to the analyzer are integers.  The random draws *)
(* random.uniform(a, b) are taken from a grid of per-mille values between  *)
(* a and b; the products base * variation and base * factor * noise are    *)
(* computed exactly as fractions and truncated as int() does, and where    *)
(* the exact product is an integer that the floating-point product only    *)
(* approximates, int() may also return the neighbour towards zero.         *)
(* diff_percent is kept as an exact fraction and compared exactly.         *)
(***************************************************************************)
EXTENDS Integers, Sequences, FiniteSets

VARIABLES
    arg,           \* the history_size handed to the constructor
    rngRes,        \* resolution of the random source: draws per range - 1
    pc,            \* "new" | "failed" | "idle" | "gen"
    history_size,  \* self.history_size
    price_queue,   \* self.price_queue, oldest first
    trend,         \* generate_simulated_history: local trend
    base_price,    \* generate_simulated_history: local base_price
    i,             \* generate_simulated_history: loop index
    appended,      \* the prices appended by the running / last generate call
    calls,         \* completed generate calls, saturating at MaxCalls
    op,            \* the last completed operation
    gen_ret,       \* what the last generate_simulated_history returned
    hist_ret,      \* return value of get_history, when it ran last
    result         \* argument and outcome of analyze_recommendation, when
                   \* it ran last

vars == <<arg, rngRes, pc, history_size, price_queue, trend, base_price, i,
          appended, calls, op, gen_ret, hist_ret, result>>

-----------------------------------------------------------------------------
(* Bounds of the model *)

MaxSize == 3
RngRes == 2
MaxCalls == 2
NegativeFactorSize == 51

GenPrices == {0, 1, 100}
WidePrices == {0, 1, 101}
AnalyzePrices == {-1, 0, 94, 95, 98, 99, 100, 105, 110, 111}

(* Program constants *)

DefaultHistorySize == 15
StableLo == 950
StableHi == 1050
NoiseLo == 980
NoiseHi == 1020
StepPct == 2
BuyPct == 5
WaitPct == 10

Trends == {"stable", "increasing", "decreasing"}

-----------------------------------------------------------------------------
(* Helpers *)

RECURSIVE Sum(_)
Sum(q) == IF q = <<>> THEN 0 ELSE Head(q) + Sum(Tail(q))

RECURSIVE Min(_)
Min(q) == IF Len(q) = 1 THEN q[1]
          ELSE LET m == Min(Tail(q)) IN IF q[1] < m THEN q[1] ELSE m

\* max_history: computed on line 67, read by no branch
RECURSIVE Max(_)
Max(q) == IF Len(q) = 1 THEN q[1]
          ELSE LET m == Max(Tail(q)) IN IF q[1] > m THEN q[1] ELSE m

Sign(x) == IF x > 0 THEN 1 ELSE IF x < 0 THEN -1 ELSE 0

\* int(num / den), den > 0: truncation towards zero
Trunc(num, den) == IF num >= 0 THEN num \div den ELSE -((-num) \div den)

\* int() of a floating-point product whose exact value is num / den.  When
\* the product is computed without rounding (exact), or its exact value is
\* not an integer, the result is the truncation; an exact integer k that the
\* float only approximates truncates to k or to its neighbour towards zero.
PyInt(num, den, exact) ==
    LET k == Trunc(num, den)
    IN  IF exact \/ num % den # 0 THEN {k} ELSE {k, k - Sign(k)}

\* random.uniform(lo, hi), in per-mille, on the grid of the random source
Uniform(lo, hi) ==
    IF rngRes = 0 THEN {lo}
    ELSE {lo + (k * (hi - lo)) \div rngRes : k \in 0..rngRes}

\* deque.clear()
Clear(q) == <<>>

\* deque(maxlen).append(x): appends, then drops the oldest beyond maxlen
DequeAppend(q, x, maxlen) ==
    IF maxlen = 0 THEN <<>>
    ELSE IF Len(q) >= maxlen THEN Append(Tail(q), x)
    ELSE Append(q, x)

\* list(self.price_queue)
ListCopy(q) == q

\* range(n - 1): one iteration short
RangeShort(n) == IF n > 1 THEN n - 1 ELSE 0

\* number of iterations of: for i in range(n)
RangeLen(n) == IF n > 0 THEN n ELSE 0

-----------------------------------------------------------------------------
(* generate_simulated_history: the price of slot k *)

\* factor, in per cent: 1.0 -/+ 0.02 * (history_size - i)
Factor(t, n, k) ==
    IF t = "increasing" THEN 100 - StepPct * (n - k)
    ELSE 100 + StepPct * (n - k)

SlotPrices(t, base, n, k) ==
    IF t = "stable"
    THEN UNION {PyInt(base * v, 1000, base = 0 \/ v = 1000) :
                    v \in Uniform(StableLo, StableHi)}
    ELSE UNION {PyInt(base * Factor(t, n, k) * v, 100000,
                      base = 0 \/ Factor(t, n, k) = 0) :
                    v \in Uniform(NoiseLo, NoiseHi)}

-----------------------------------------------------------------------------
(* analyze_recommendation *)

Outcome(p, l, e) == [price |-> p, label |-> l, expl |-> e]

\* fewer than two entries taken for "not enough data"
IsEmptyOrSingle(q) == Len(q) <= 1

\* not self.price_queue
IsEmpty(q) == Len(q) = 0

\* diff_percent = ((current_price - avg) / avg) * 100 as the fraction
\* num / den with avg = Sum(q) / Len(q)
DiffNum(q, p) == 100 * (p * Len(q) - Sum(q))
DiffDen(q) == Sum(q)

\* num / den < k and num / den > k, den # 0
FracLess(num, den, k) == IF den > 0 THEN num < k * den ELSE num > k * den
FracGreater(num, den, k) == IF den > 0 THEN num > k * den ELSE num < k * den

\* current_price <= min_history
IsLowestOrEqual(q, p) == p <= Min(q)

\* current_price < min_history
IsLowest(q, p) == p < Min(q)

\* diff_percent >= 10
IsAboveOrAt(q, p) == ~ FracLess(DiffNum(q, p), DiffDen(q), WaitPct)

\* diff_percent > 10
IsFarAbove(q, p) == FracGreater(DiffNum(q, p), DiffDen(q), WaitPct)

\* the percentage rules tried before the minimum rule
RecommendPercentFirst(q, p) ==
    IF IsEmpty(q) THEN Outcome(p, "UNKNOWN", "Not enough data")
    ELSE IF DiffDen(q) = 0 THEN Outcome(p, "ZeroDivisionError", "raised")
    ELSE IF FracLess(DiffNum(q, p), DiffDen(q), -BuyPct)
         THEN Outcome(p, "BUY", "percent below")
    ELSE IF FracLess(DiffNum(q, p), DiffDen(q), 0)
         THEN Outcome(p, "BUY", "slightly below")
    ELSE IF IsLowest(q, p) THEN Outcome(p, "BUY NOW", "lowest")
    ELSE IF IsFarAbove(q, p) THEN Outcome(p, "STOP WAIT", "percent above")
    ELSE Outcome(p, "WAIT", "average")

\* the if / elif chain of lines 62-80; the division of line 69 raises
\* ZeroDivisionError when the mean is zero
Recommend(q, p) ==
    IF IsEmpty(q) THEN Outcome(p, "UNKNOWN", "Not enough data")
    ELSE IF DiffDen(q) = 0 THEN Outcome(p, "ZeroDivisionError", "raised")
    ELSE IF IsLowest(q, p) THEN Outcome(p, "BUY NOW", "lowest")
    ELSE IF FracLess(DiffNum(q, p), DiffDen(q), -BuyPct)
         THEN Outcome(p, "BUY", "percent below")
    ELSE IF FracLess(DiffNum(q, p), DiffDen(q), 0)
         THEN Outcome(p, "BUY", "slightly below")
    ELSE IF IsFarAbove(q, p) THEN Outcome(p, "STOP WAIT", "percent above")
    ELSE Outcome(p, "WAIT", "average")

-----------------------------------------------------------------------------
(* State machine *)

NoOutcome == Outcome(0, "none", "none")

InitWith(sizes, res) ==
    /\ arg \in sizes
    /\ rngRes = res
    /\ pc = "new"
    /\ history_size = 0
    /\ price_queue = <<>>
    /\ trend = "stable"
    /\ base_price = 0
    /\ i = 0
    /\ appended = <<>>
    /\ calls = 0
    /\ op = "none"
    /\ gen_ret = <<>>
    /\ hist_ret = <<>>
    /\ result = NoOutcome

Init == InitWith(-1..MaxSize, RngRes)

InitWide == InitWith({DefaultHistorySize, NegativeFactorSize}, 0)

\* PriceAnalyzer(history_size = arg); deque(maxlen = arg) raises ValueError
\* for a negative maxlen
Construct ==
    /\ pc = "new"
    /\ IF arg < 0
       THEN /\ pc' = "failed"
            /\ UNCHANGED <<history_size, price_queue>>
       ELSE /\ pc' = "idle"
            /\ history_size' = arg
            /\ price_queue' = <<>>
    /\ op' = "construct"
    /\ UNCHANGED <<arg, rngRes, trend, base_price, i, appended, calls,
                   gen_ret, hist_ret, result>>

\* generate_simulated_history(current_price): clear, choose the trend
GenerateBegin(current_price, t) ==
    /\ pc = "idle"
    /\ pc' = "gen"
    /\ price_queue' = Clear(price_queue)
    /\ trend' = t
    /\ base_price' = current_price
    /\ i' = 0
    /\ appended' = <<>>
    /\ op' = "call"
    /\ gen_ret' = <<>>
    /\ hist_ret' = <<>>
    /\ result' = NoOutcome
    /\ UNCHANGED <<arg, rngRes, history_size, calls>>

\* one iteration of the loop
GenerateStep ==
    /\ pc = "gen"
    /\ i < RangeLen(history_size)
    /\ \E price \in SlotPrices(trend, base_price, history_size, i) :
          /\ price_queue' = DequeAppend(price_queue, price, history_size)
          /\ appended' = Append(appended, price)
    /\ i' = i + 1
    /\ UNCHANGED <<arg, rngRes, pc, history_size, trend, base_price, calls,
                   op, gen_ret, hist_ret, result>>

\* return list(self.price_queue)
GenerateReturn ==
    /\ pc = "gen"
    /\ i >= RangeLen(history_size)
    /\ pc' = "idle"
    /\ gen_ret' = ListCopy(price_queue)
    /\ calls' = IF calls < MaxCalls THEN calls + 1 ELSE calls
    /\ op' = "generate"
    /\ UNCHANGED <<arg, rngRes, history_size, price_queue, trend, base_price,
                   i, appended, hist_ret, result>>

\* an analysis that consumes the oldest entry while reading the queue
analyze_consuming(current_price) ==
    /\ pc = "idle"
    /\ result' = Recommend(price_queue, current_price)
    /\ price_queue' = IF price_queue = <<>> THEN <<>> ELSE Tail(price_queue)
    /\ op' = "analyze"
    /\ hist_ret' = <<>>
    /\ UNCHANGED <<arg, rngRes, pc, history_size, trend, base_price, i,
                   appended, calls, gen_ret>>

analyze_recommendation(current_price) ==
    /\ pc = "idle"
    /\ result' = Recommend(price_queue, current_price)
    /\ op' = "analyze"
    /\ hist_ret' = <<>>
    /\ UNCHANGED <<arg, rngRes, pc, history_size, price_queue, trend,
                   base_price, i, appended, calls, gen_ret>>

get_history ==
    /\ pc = "idle"
    /\ hist_ret' = ListCopy(price_queue)
    /\ op' = "get_history"
    /\ result' = NoOutcome
    /\ UNCHANGED <<arg, rngRes, pc, history_size, price_queue, trend,
                   base_price, i, appended, calls, gen_ret>>

Generate == \E p \in GenPrices, t \in Trends : GenerateBegin(p, t)

Analyze == \E p \in AnalyzePrices : analyze_recommendation(p)

Next ==
    \/ Construct
    \/ Generate
    \/ GenerateStep
    \/ GenerateReturn
    \/ Analyze
    \/ get_history

Spec == Init /\ [][Next]_vars

GenerateWide == \E p \in WidePrices, t \in Trends : GenerateBegin(p, t)

NextWide ==
    \/ Construct
    \/ GenerateWide
    \/ GenerateStep
    \/ GenerateReturn
    \/ Analyze
    \/ get_history

\* the default capacity and the first capacity with a negative factor, with
\* one draw per range
SpecWide == InitWide /\ [][NextWide]_vars

-----------------------------------------------------------------------------
(* Properties *)

Constructed == pc \in {"idle", "gen"}

Analyzed == pc = "idle" /\ op = "analyze"

\* the history is the value v in every slot
Constant(q, v) == q # <<>> /\ \A k \in 1..Len(q) : q[k] = v

\* C1: for a positive history_size n the history never holds more than n
\* entries, and after every generate_simulated_history call it holds exactly
\* n entries, which are the entries that call appended, in order.
C1_CapacityAndReplacement ==
    (Constructed /\ history_size > 0) =>
        /\ Len(price_queue) <= history_size
        /\ (pc = "idle" /\ calls >= 1) =>
              /\ Len(price_queue) = history_size
              /\ price_queue = appended
        /\ (pc = "idle" /\ op = "generate") =>
              Len(gen_ret) = history_size

C1_Witness ==
    /\ pc = "idle" /\ op = "generate" /\ calls = 2
    /\ history_size = MaxSize /\ base_price = 100
    /\ Len(price_queue) = MaxSize
    /\ price_queue = appended

\* C2: between two generate calls the stored history and the capacity stay
\* what the last generate call left (the empty history before the first):
\* analyze_recommendation and get_history change neither, and get_history
\* returns that sequence, oldest first.
C2_HistoryReadOnly ==
    pc = "idle" =>
        /\ price_queue = gen_ret
        /\ history_size = arg
        /\ op = "get_history" => hist_ret = gen_ret
        /\ (op = "get_history" /\ calls = 0) => hist_ret = <<>>

C2_Witness ==
    /\ pc = "idle" /\ op = "get_history" /\ calls >= 1
    /\ Len(hist_ret) = MaxSize
    /\ hist_ret = gen_ret
    /\ hist_ret[1] < hist_ret[MaxSize]

C5_NoArithmeticFault ==
    Analyzed => result.label # "ZeroDivisionError"

\* C6: no analyzer exists whose capacity is zero or negative.
C6_PositiveCapacity ==
    Constructed => history_size > 0

\* C7: the analyzer starts empty; only generate_simulated_history fills an
\* empty history; with a positive capacity the history is empty between
\* calls exactly before the first generate call; and analyze_recommendation
\* answers UNKNOWN / "Not enough data" exactly when the history is empty.
C7_Lifecycle ==
    /\ [](pc = "new" => price_queue = <<>>)
    /\ []((pc = "idle" /\ history_size > 0) =>
            (price_queue = <<>> <=> calls = 0))
    /\ [](Analyzed =>
            /\ result.label = "UNKNOWN" <=> price_queue = <<>>
            /\ result.label = "UNKNOWN" <=> result.expl = "Not enough data")
    /\ [][(price_queue = <<>> /\ price_queue' # <<>>) => pc = "gen"]_vars

C7_Witness ==
    /\ Analyzed /\ calls = 2 /\ history_size = 1
    /\ price_queue # <<>>
    /\ result.label \notin {"UNKNOWN", "none"}

\* C8: every entry of the stored history is a non-negative integer.
C8_NonNegativeEntries ==
    \A k \in 1..Len(price_queue) : price_queue[k] >= 0

C10_WithinFifteenPercent ==
    (Constructed /\ history_size = DefaultHistorySize) =>
        \A k \in 1..Len(price_queue) :
            /\ 100 * (price_queue[k] + 1) > 85 * base_price
            /\ 100 * price_queue[k] <= 115 * base_price

====
